---- MODULE Spec2Model ----
(***************************************************************************)
(* A model of the type-erased callable wrapper Function<Ret(Args...)> of   *)
(* functional/my_function_4.cc and of the compile-time whitelist           *)
(* meta::has_type of multi_method_2.cc.                                    *)
(*                                                                         *)
(* The free store is a finite array of cells; a cell is free or holds one  *)
(* adapter (a detail::func_impl object).  A Function object is a slot that *)
(* is out of scope or alive with its call signature and its impl_base_     *)
(* pointer.  Every member function of Function is one action.              *)
(***************************************************************************)
EXTENDS Integers, Sequences, FiniteSets, TLC

\* ------------------------------------------------------------- bounds
MaxAddr == 3      \* cells of the free store
MaxCount == 2     \* largest value of the counter a stored functor keeps
MaxListLen == 3   \* longest meta::list given to has_type

\* --------------------------------------------------------- the program
nullptr == 0

\* the Function objects of the caller, named as in main's f1 = f2 test
Handles == {"f1", "f2"}
Addrs == 1 .. MaxAddr

\* the call signatures Function is instantiated with
Signatures == {"int()", "void(int&)", "string()", "void(Class*)", "void(Class&)"}

foo_ex1 == 42
foo_ex2 == 43
foo_void(val) == val + 1

\* LargeFunctor::operator() const: returns the stored string
LargeFunctor_call(self) == [ret |-> [str |-> self.repr_], self |-> self]

\* a functor whose non-const call operator updates its own member
StatefulFunctor_call(self) == [ret |-> [int |-> self.n + 1], self |-> [n |-> self.n + 1]]

\* the members of the receiver class: Beren is const, Mutate writes a field
Member_call(pm, obj) ==
  IF pm = "Beren" THEN [ret |-> [void |-> TRUE], self |-> obj]
  ELSE [ret |-> [void |-> TRUE], self |-> [n |-> obj.n + 1]]

ReprValues == {"LargeFunctorString", "Silmarillion"}

\* the callable values a Function can be built from or assigned
FunctionPointers == {[fn |-> "foo_ex1"], [fn |-> "foo_ex2"], [fn |-> "foo_void"]}
MemberPointers == {[mem |-> "Beren"], [mem |-> "Mutate"]}
LargeFunctors == {[repr_ |-> s] : s \in ReprValues}
StatefulFunctors == {[n |-> k] : k \in 0 .. MaxCount}
Callables == FunctionPointers \cup MemberPointers \cup LargeFunctors \cup StatefulFunctors

IsFunctionPointer(cb) == cb \in FunctionPointers
IsMemberPointer(cb) == cb \in MemberPointers

\* the name of a payload, whatever the state it carries
PayloadId(cb) ==
  IF IsFunctionPointer(cb) THEN cb.fn
  ELSE IF IsMemberPointer(cb) THEN cb.mem
  ELSE IF cb \in LargeFunctors THEN "LargeFunctor"
  ELSE "StatefulFunctor"

\* func_impl<Signature, Callable> is instantiable: the payload can be called
\* with the signature's arguments and returns the signature's type
Compiles(sig, cb) ==
  CASE sig = "int()" -> cb \in {[fn |-> "foo_ex1"], [fn |-> "foo_ex2"]} \cup StatefulFunctors
    [] sig = "void(int&)" -> cb = [fn |-> "foo_void"]
    [] sig = "string()" -> cb \in LargeFunctors
    [] OTHER -> IsMemberPointer(cb)

\* which specialization of func_impl the payload's type selects
func_impl_kind(cb) ==
  IF IsFunctionPointer(cb) THEN "fn"
  ELSE IF IsMemberPointer(cb) THEN "memfn"
  ELSE "functor"

\* the argument lists a signature is called with
ArgsOf(sig) ==
  CASE sig = "void(int&)" -> {[int |-> v] : v \in 41 .. 42}
    [] sig \in {"void(Class*)", "void(Class&)"} -> {[obj |-> [n |-> k]] : k \in 0 .. 1}
    [] OTHER -> {[none |-> TRUE]}

Free == [kind |-> "free"]
NoRet == [none |-> TRUE]
NoArg == [none |-> TRUE]

\* func_impl(callable): the adapter built around a payload for a signature
func_impl(sig, cb) == [kind |-> func_impl_kind(cb), sig |-> sig, callable_ |-> cb]

VARIABLES
  heap,      \* the free store: cell -> Free or an adapter
  handles,   \* Function objects: slot -> [live, sig, impl_base_]
  lf,        \* the caller's LargeFunctor object, copied into handles
  halted,    \* "no", or the signal that ended the process
  last,      \* the operation the last step performed, with what it returned
  list,      \* multi_method_2: the meta::list has_type is asked about
  dispatch   \* multi_method_2: the last on_modify_command call and its branch

fvars == <<heap, handles, lf, halted, last>>
mvars == <<list, dispatch>>
vars == <<heap, handles, lf, halted, last, list, dispatch>>

OutOfScope == [live |-> FALSE, sig |-> "none", impl_base_ |-> nullptr]

FreeAddrs(hp) == {p \in Addrs : hp[p] = Free}

\* operator new / operator delete on the free store
new(hp, p, adapter) == [hp EXCEPT ![p] = adapter]
delete(hp, p) == IF p = nullptr THEN hp ELSE [hp EXCEPT ![p] = Free]

\* the signals that end the process
UBOutcomes == {"SIGSEGV", "SIGILL"}

\* ------------------------------------------------- detail::func_impl
\* a call that passes a copy of the argument where a reference was declared
func_impl_fn_call_bycopy(callable_, arg) ==
  CASE callable_.fn = "foo_ex1" ->
         [ret |-> [int |-> foo_ex1], argOut |-> arg, callable_ |-> callable_]
    [] callable_.fn = "foo_ex2" ->
         [ret |-> [int |-> foo_ex2], argOut |-> arg, callable_ |-> callable_]
    [] OTHER ->
         [ret |-> [void |-> TRUE], argOut |-> arg, callable_ |-> callable_]

\* func_impl<Ret(Args...), Ret(*)(Args...)>::operator(): calls the pointer
\* with the forwarded arguments; a reference argument is the caller's object
func_impl_fn_call(callable_, arg) ==
  CASE callable_.fn = "foo_ex1" ->
         [ret |-> [int |-> foo_ex1], argOut |-> arg, callable_ |-> callable_]
    [] callable_.fn = "foo_ex2" ->
         [ret |-> [int |-> foo_ex2], argOut |-> arg, callable_ |-> callable_]
    [] OTHER ->
         [ret |-> [void |-> TRUE], argOut |-> [int |-> foo_void(arg.int)],
          callable_ |-> callable_]

\* func_impl<Ret(Args...), Functor>::operator(): calls the stored functor,
\* which is not const here, so the call may change the stored copy
func_impl_functor_call(callable_, arg) ==
  LET r == IF callable_ \in LargeFunctors THEN LargeFunctor_call(callable_)
           ELSE StatefulFunctor_call(callable_)
  IN [ret |-> r.ret, argOut |-> arg, callable_ |-> r.self]

\* func_impl<Ret(Args...), Member Class::*>::call(ClassType obj, ...):
\* obj is taken by value, so ClassType is a pointer (the caller's object is
\* reached through it) or the class itself (obj is a copy of the receiver)
call(callable_, sig, receiver) ==
  LET r == Member_call(callable_.mem, receiver)
  IN IF sig = "void(Class*)"
     THEN [ret |-> r.ret, receiver |-> r.self]
     ELSE [ret |-> r.ret, receiver |-> receiver]

func_impl_memfn_call(callable_, sig, arg) ==
  LET r == call(callable_, sig, arg.obj)
  IN [ret |-> r.ret, argOut |-> [obj |-> r.receiver], callable_ |-> callable_]

\* the virtual function_impl_base::operator()
impl_call(adapter, arg) ==
  CASE adapter.kind = "fn" -> func_impl_fn_call(adapter.callable_, arg)
    [] adapter.kind = "functor" -> func_impl_functor_call(adapter.callable_, arg)
    [] OTHER -> func_impl_memfn_call(adapter.callable_, adapter.sig, arg)

\* a clone that hands out the adapter itself instead of a copy of it
clone_shallow(hp, this, p) == [heap |-> hp, ptr |-> this]

\* func_impl::clone: new func_impl(*this) in the free cell p
clone(hp, this, p) == [heap |-> new(hp, p, hp[this]), ptr |-> p]

\* ----------------------------------------------------------- Function
\* the test of operator bool inverted
operator_bool_inverted(f) == f.impl_base_ = nullptr

\* explicit operator bool() const noexcept
operator_bool(f) == f.impl_base_ # nullptr

\* the handle owns a live adapter
Owns(hp, f) == f.live /\ f.impl_base_ \in Addrs /\ hp[f.impl_base_] # Free

\* what a step did: the operation, the object it was applied to, the object
\* copied from, the pointer the target held before, the arguments before and
\* after the call, the value returned and the payload that ran
Op(op, h, src, old, arg, argOut, ret, ran) ==
  [op |-> op, h |-> h, src |-> src, old |-> old, arg |-> arg, argOut |-> argOut,
   ret |-> ret, ran |-> ran]

\* the payloads the caller has at hand: the functions, the members, its
\* LargeFunctor object and a newly made stateful functor
Offered == FunctionPointers \cup MemberPointers \cup {lf} \cup {[n |-> 0]}

\* Function() = default
DefaultConstruct(h, sig) ==
  /\ halted = "no"
  /\ ~handles[h].live
  /\ handles' = [handles EXCEPT ![h] = [live |-> TRUE, sig |-> sig, impl_base_ |-> nullptr]]
  /\ last' = Op("default_construct", h, h, nullptr, NoArg, NoArg, NoRet, "none")
  /\ UNCHANGED <<heap, lf, halted, list, dispatch>>

\* make_unique<func_impl<call_signature, Callable>>(std::move(cb)) in cell p
make_unique(hp, sig, cb, p) == [heap |-> new(hp, p, func_impl(sig, cb)), ptr |-> p]

\* template <typename Callable> Function(Callable f)
ConstructFromCallable(h, sig, cb) ==
  /\ halted = "no"
  /\ ~handles[h].live
  /\ Compiles(sig, cb)
  /\ \E p \in FreeAddrs(heap) :
       LET m == make_unique(heap, sig, cb, p)
       IN /\ heap' = m.heap
          /\ handles' = [handles EXCEPT ![h] = [live |-> TRUE, sig |-> sig, impl_base_ |-> m.ptr]]
  /\ last' = Op("construct", h, h, nullptr, [cb |-> cb], NoArg, NoRet, "none")
  /\ UNCHANGED <<lf, halted, list, dispatch>>

\* a reset that keeps the old adapter and drops the new one
reset_stale(hp, f, p) == [heap |-> delete(hp, p), f |-> f]

\* unique_ptr::reset(p): install p, then delete what was owned before
reset(hp, f, p) ==
  [heap |-> delete(hp, f.impl_base_), f |-> [f EXCEPT !.impl_base_ = p]]

\* template <typename Callable> Function& operator=(Callable cb): the new
\* adapter is made first, the move assignment of unique_ptr then resets
AssignCallable(h, cb) ==
  /\ halted = "no"
  /\ handles[h].live
  /\ Compiles(handles[h].sig, cb)
  /\ \E p \in FreeAddrs(heap) :
       LET m == make_unique(heap, handles[h].sig, cb, p)
           r == reset(m.heap, handles[h], m.ptr)
       IN /\ heap' = r.heap
          /\ handles' = [handles EXCEPT ![h] = r.f]
  /\ last' = Op("assign", h, h, handles[h].impl_base_, [cb |-> cb], NoArg, NoRet, "none")
  /\ UNCHANGED <<lf, halted, list, dispatch>>

\* Function(const Function& other): other.impl_base_->clone() is called
\* whatever other holds; through a null pointer the call is undefined
copy_ub(other) == other.impl_base_ = nullptr

\* Function(const Function& other)
CopyConstruct(h, other) ==
  /\ halted = "no"
  /\ ~handles[h].live
  /\ handles[other].live
  /\ last' = Op("copy_construct", h, other, nullptr, NoArg, NoArg, NoRet, "none")
  /\ UNCHANGED <<list, dispatch>>
  /\ IF copy_ub(handles[other])
     THEN /\ halted' \in UBOutcomes
          /\ UNCHANGED <<heap, handles, lf>>
     ELSE /\ \E p \in FreeAddrs(heap) :
               LET c == clone(heap, handles[other].impl_base_, p)
               IN /\ heap' = c.heap
                  /\ handles' = [handles EXCEPT ![h] =
                       [live |-> TRUE, sig |-> handles[other].sig, impl_base_ |-> c.ptr]]
          /\ UNCHANGED <<lf, halted, list, dispatch>>

\* get() where release() was meant: the parameter keeps its adapter
release_get(ptr) == [ptr |-> ptr, left |-> ptr]

\* unique_ptr::release(): hands the pointer out and leaves nullptr behind
release(ptr) == [ptr |-> ptr, left |-> nullptr]

\* Function& operator=(Function other): the parameter is copy constructed
\* from the argument, its adapter is released into this, and the parameter
\* is destroyed with what it was left with
CopyAssign(h, src) ==
  /\ halted = "no"
  /\ handles[h].live
  /\ handles[src].live
  /\ handles[h].sig = handles[src].sig
  /\ last' = Op("copy_assign", h, src, handles[h].impl_base_, NoArg, NoArg, NoRet, "none")
  /\ UNCHANGED <<list, dispatch>>
  /\ IF copy_ub(handles[src])
     THEN /\ halted' \in UBOutcomes
          /\ UNCHANGED <<heap, handles, lf>>
     ELSE /\ \E p \in FreeAddrs(heap) :
               LET other == clone(heap, handles[src].impl_base_, p)
                   rel == release(other.ptr)
                   r == reset(other.heap, handles[h], rel.ptr)
               IN /\ heap' = delete(r.heap, rel.left)
                  /\ handles' = [handles EXCEPT ![h] = r.f]
          /\ UNCHANGED <<lf, halted, list, dispatch>>

\* a call operator without the assertion, which returns a default value
Function_call_noassert(hp, f, arg) ==
  IF f.impl_base_ = nullptr \/ hp[f.impl_base_] = Free
  THEN [halted |-> "no", heap |-> hp, ret |-> [int |-> 0], argOut |-> arg, ran |-> "none"]
  ELSE LET r == impl_call(hp[f.impl_base_], arg)
       IN [halted |-> "no",
           heap |-> [hp EXCEPT ![f.impl_base_].callable_ = r.callable_],
           ret |-> r.ret, argOut |-> r.argOut,
           ran |-> PayloadId(hp[f.impl_base_].callable_)]

\* Ret operator()(Args&&... args): the assertion, then the virtual call
Function_call(hp, f, arg) ==
  IF f.impl_base_ = nullptr
  THEN [halted |-> "SIGABRT", heap |-> hp, ret |-> NoRet, argOut |-> arg, ran |-> "none"]
  ELSE IF hp[f.impl_base_] = Free
  THEN [halted |-> "SIGSEGV", heap |-> hp, ret |-> NoRet, argOut |-> arg, ran |-> "none"]
  ELSE LET r == impl_call(hp[f.impl_base_], arg)
       IN [halted |-> "no",
           heap |-> [hp EXCEPT ![f.impl_base_].callable_ = r.callable_],
           ret |-> r.ret, argOut |-> r.argOut,
           ran |-> PayloadId(hp[f.impl_base_].callable_)]

\* the stored counter stays within MaxCount
WithinCount(hp, f) ==
  Owns(hp, f) /\ hp[f.impl_base_].callable_ \in StatefulFunctors
    => hp[f.impl_base_].callable_.n < MaxCount

Invoke(h, arg) ==
  /\ halted = "no"
  /\ handles[h].live
  /\ arg \in ArgsOf(handles[h].sig)
  /\ WithinCount(heap, handles[h])
  /\ LET r == Function_call(heap, handles[h], arg)
     IN /\ heap' = r.heap
        /\ halted' = r.halted
        /\ last' = Op("call", h, h, handles[h].impl_base_, arg, r.argOut, r.ret, r.ran)
  /\ UNCHANGED <<handles, lf, list, dispatch>>

\* ~Function(): the unique_ptr member deletes the adapter it owns
Destroy(h) ==
  /\ halted = "no"
  /\ handles[h].live
  /\ heap' = delete(heap, handles[h].impl_base_)
  /\ handles' = [handles EXCEPT ![h] = OutOfScope]
  /\ last' = Op("destroy", h, h, handles[h].impl_base_, NoArg, NoArg, NoRet, "none")
  /\ UNCHANGED <<lf, halted, list, dispatch>>

\* the caller writes to its own functor object (lf.repr_ = "Silmarillion")
MutateOriginal(s) ==
  /\ halted = "no"
  /\ s # lf.repr_
  /\ lf' = [repr_ |-> s]
  /\ last' = Op("mutate_original", "none", "none", nullptr, NoArg, NoArg, NoRet, "none")
  /\ UNCHANGED <<heap, handles, halted, list, dispatch>>

\* -------------------------------------------------- multi_method_2.cc
TypeNames == {"CommandA", "CommandB", "SomeCommandType", "CommandC"}
Types == [name : TypeNames, ref : BOOLEAN]
Plain(n) == [name |-> n, ref |-> FALSE]

\* std::decay: the reference is removed
decay(t) == [t EXCEPT !.ref = FALSE]

AvailableCommmands == <<Plain("CommandA"), Plain("CommandB"), Plain("SomeCommandType")>>

\* meta::has_type<F, list<...>>: the empty list, the list that starts with F
\* (the more specialized partial specialization), and any other list
RECURSIVE has_type(_, _)
has_type(F, L) ==
  IF L = <<>> THEN [type |-> FALSE, value |-> FALSE]
  ELSE IF Head(L) = F THEN [type |-> TRUE, value |-> TRUE]
  ELSE [type |-> FALSE,
        value |-> IF F = decay(Head(L)) THEN TRUE ELSE has_type(F, Tail(L)).value]

\* Base::on_modify_command_impl(cmd, std::true_type / std::false_type)
on_modify_command_impl(T, tag) ==
  [cmd |-> T, branch |-> IF tag THEN "true_type" ELSE "Not implemented"]

\* Base::on_modify_command(T cmd): T is deduced from a by-value parameter
on_modify_command(T) ==
  /\ dispatch' = on_modify_command_impl(T, has_type(T, list).type)
  /\ UNCHANGED <<list, heap, handles, lf, halted, last>>

Lists == UNION {[1 .. n -> Types] : n \in 0 .. MaxListLen}
NoDispatch == [cmd |-> Plain("none"), branch |-> "none"]

\* ------------------------------------------------------ specifications
FInit ==
  /\ heap = [p \in Addrs |-> Free]
  /\ handles = [h \in Handles |-> OutOfScope]
  /\ lf = [repr_ |-> "LargeFunctorString"]
  /\ halted = "no"
  /\ last = Op("init", "none", "none", nullptr, NoArg, NoArg, NoRet, "none")

Init ==
  /\ FInit
  /\ list = AvailableCommmands
  /\ dispatch = NoDispatch

Next ==
  \/ \E h \in Handles, sig \in Signatures : DefaultConstruct(h, sig)
  \/ \E h \in Handles, sig \in Signatures, cb \in Offered : ConstructFromCallable(h, sig, cb)
  \/ \E h \in Handles, cb \in Offered : AssignCallable(h, cb)
  \/ \E h \in Handles, other \in Handles : CopyConstruct(h, other)
  \/ \E h \in Handles, src \in Handles : CopyAssign(h, src)
  \/ \E h \in Handles : \E arg \in ArgsOf(handles[h].sig) : Invoke(h, arg)
  \/ \E h \in Handles : Destroy(h)
  \/ \E s \in ReprValues : MutateOriginal(s)

Spec == Init /\ [][Next]_vars

MInit ==
  /\ FInit
  /\ list \in Lists
  /\ dispatch = NoDispatch

MNext ==
  \E T \in {Plain(n) : n \in TypeNames} : on_modify_command(T)

SpecDispatch == MInit /\ [][MNext]_vars

\* ------------------------------------------------------------- claims
CopyOps == {"copy_construct", "copy_assign"}

\* the payload stored in the adapter a handle points to
Stored(hp, f) == hp[f.impl_base_].callable_

\* the handles that point to cell p
Owners(p) == {h \in Handles : handles[h].live /\ handles[h].impl_base_ = p}

\* calling a function or functor payload directly, without a wrapper
DirectCall(cb, arg) ==
  CASE cb = [fn |-> "foo_ex1"] -> [ret |-> [int |-> foo_ex1], argOut |-> arg, self |-> cb]
    [] cb = [fn |-> "foo_ex2"] -> [ret |-> [int |-> foo_ex2], argOut |-> arg, self |-> cb]
    [] cb = [fn |-> "foo_void"] ->
         [ret |-> [void |-> TRUE], argOut |-> [int |-> foo_void(arg.int)], self |-> cb]
    [] cb \in LargeFunctors ->
         [ret |-> LargeFunctor_call(cb).ret, argOut |-> arg, self |-> LargeFunctor_call(cb).self]
    [] OTHER ->
         [ret |-> StatefulFunctor_call(cb).ret, argOut |-> arg,
          self |-> StatefulFunctor_call(cb).self]

\* C1: a copy construction or copy assignment whose source handle is empty
\* completes normally (the process is not ended) and leaves the target alive
\* and empty.
C1_CopyFromEmptyGivesEmpty ==
  [][(last'.op \in CopyOps /\ handles[last'.src].impl_base_ = nullptr)
       => /\ halted' = "no"
          /\ handles'[last'.h].live
          /\ handles'[last'.h].impl_base_ = nullptr]_vars

\* a copy whose source owns an adapter
CopyFromHolding == last'.op \in CopyOps /\ Owns(heap, handles[last'.src])

\* the target of the copy owns a clone made in a cell that was free, which
\* holds what the source's adapter held and is not the source's adapter
TargetOwnsFreshClone ==
  /\ halted' = "no"
  /\ Owns(heap', handles'[last'.h])
  /\ handles'[last'.h].impl_base_ # handles[last'.src].impl_base_
  /\ heap[handles'[last'.h].impl_base_] = Free
  /\ heap'[handles'[last'.h].impl_base_] = heap[handles[last'.src].impl_base_]

\* the source of the copy still owns the adapter it owned, unchanged
SourceKeepsOriginal ==
  /\ handles'[last'.src] = handles[last'.src]
  /\ Owns(heap', handles'[last'.src])
  /\ heap'[handles[last'.src].impl_base_] = heap[handles[last'.src].impl_base_]

\* C2 as stated: every copy from a non-empty source, a self-assignment
\* included, leaves the target owning a fresh clone that is not the source's
\* adapter, and the source still owning its original adapter.
C2_CopyClonesSourceKeeps ==
  [][CopyFromHolding => TargetOwnsFreshClone /\ SourceKeepsOriginal]_vars

\* C2 amended: every copy from a non-empty source leaves the target owning a
\* fresh clone that is not the adapter the source owned; a source other than
\* the target still owns its original adapter, and in a self-assignment the
\* original adapter is destroyed and the handle owns the clone.
C2_CopyClonesOtherSourceKeeps ==
  [][CopyFromHolding =>
       /\ TargetOwnsFreshClone
       /\ IF last'.src # last'.h THEN SourceKeepsOriginal
          ELSE heap'[handles[last'.src].impl_base_] = Free]_vars

\* a handle, owning an adapter, was copy-assigned to itself
C2_Witness ==
  /\ last.op = "copy_assign"
  /\ last.h = last.src
  /\ last.old # nullptr
  /\ halted = "no"
  /\ Owns(heap, handles[last.h])
  /\ handles[last.h].impl_base_ # last.old

\* C3: every adapter alive in the free store is pointed to by exactly one
\* live handle: no two handles share an adapter.
C3_SingleOwner == \A p \in Addrs : heap[p] # Free => Cardinality(Owners(p)) = 1

\* after a copy construction both handles own an adapter with the same content
C3_Witness ==
  /\ last.op = "copy_construct"
  /\ \A h \in Handles : Owns(heap, handles[h])
  /\ heap[handles["f1"].impl_base_] = heap[handles["f2"].impl_base_]
  /\ handles["f1"].impl_base_ # handles["f2"].impl_base_

\* C4: a call through a handle that held no adapter ends the process by the
\* assertion: no payload ran, nothing was returned, the arguments are untouched.
C4_EmptyCallAsserts ==
  (last.op = "call" /\ last.old = nullptr)
    => /\ halted = "SIGABRT"
       /\ last.ret = NoRet
       /\ last.ran = "none"
       /\ last.argOut = last.arg

\* an empty handle was called
C4_Witness == last.op = "call" /\ last.old = nullptr /\ halted = "SIGABRT"

\* C5: operator bool of a live handle is true exactly when the handle owns
\* an adapter; it is false right after default construction and true right
\* after construction from a payload or assignment of a payload.
C5_BoolIffOwns ==
  /\ \A h \in Handles :
       handles[h].live => (operator_bool(handles[h]) <=> Owns(heap, handles[h]))
  /\ last.op = "default_construct" => ~operator_bool(handles[last.h])
  /\ last.op \in {"construct", "assign"} => operator_bool(handles[last.h])

\* an empty handle was assigned a payload and reports non-empty
C5_Witness ==
  /\ last.op = "assign"
  /\ last.old = nullptr
  /\ operator_bool(handles[last.h])
  /\ \E h \in Handles : handles[h].live /\ ~operator_bool(handles[h])

\* the handle holds a functor
FunctorHeld(hp, f) == Owns(hp, f) /\ hp[f.impl_base_].kind = "functor"

\* the step leaves the functor held by h, and what a call of h returns, as
\* they were
Untouched(h) ==
  FunctorHeld(heap, handles[h])
    => /\ handles'[h] = handles[h]
       /\ FunctorHeld(heap', handles'[h])
       /\ Stored(heap', handles'[h]) = Stored(heap, handles[h])
       /\ Function_call(heap', handles'[h], NoArg).ret
            = Function_call(heap, handles[h], NoArg).ret

\* C6: a call through one handle changes neither the functor another handle
\* stores nor what that handle returns, and a write to the caller's original
\* functor object changes no handle's stored functor or result.
C6_CopiesIndependent ==
  [][/\ last'.op = "call" => \A h \in Handles \ {last'.h} : Untouched(h)
     /\ last'.op = "mutate_original" => \A h \in Handles : Untouched(h)]_vars

\* a call changed the functor stored in one handle, and the other handle
\* stores a functor of the same type with the earlier state
C6_Witness ==
  /\ last.op = "call"
  /\ last.ran = "StatefulFunctor"
  /\ \E h \in Handles \ {last.h} :
       /\ FunctorHeld(heap, handles[h])
       /\ Stored(heap, handles[h]) \in StatefulFunctors
       /\ Stored(heap, handles[h]).n < Stored(heap, handles[last.h]).n

\* an assignment of a payload, or of a non-empty handle, to a handle that
\* holds a payload
AssignOverHeld ==
  /\ last'.op \in {"assign", "copy_assign"}
  /\ Owns(heap, handles[last'.h])
  /\ last'.op = "copy_assign" => Owns(heap, handles[last'.src])

\* the payload an assignment installs
Assigned ==
  IF last'.op = "assign" THEN last'.arg.cb ELSE Stored(heap, handles[last'.src])

\* C7: an assignment over a held payload destroys the old adapter and leaves
\* the handle owning a new one that stores the assigned payload; a call runs
\* the payload the handle stores at that moment; and no operation on another
\* object changes which payload a handle stores.
C7_AssignReplaces ==
  [][/\ AssignOverHeld =>
          /\ Owns(heap', handles'[last'.h])
          /\ handles'[last'.h].impl_base_ # handles[last'.h].impl_base_
          /\ heap'[handles[last'.h].impl_base_] = Free
          /\ Stored(heap', handles'[last'.h]) = Assigned
     /\ (last'.op = "call" /\ Owns(heap, handles[last'.h])) =>
          /\ last'.ran = PayloadId(Stored(heap, handles[last'.h]))
          /\ Owns(heap', handles'[last'.h])
          /\ PayloadId(Stored(heap', handles'[last'.h])) = last'.ran
     /\ \A h \in Handles :
          (Owns(heap, handles[h]) /\ (last'.h # h \/ last'.op = "call")) =>
            /\ Owns(heap', handles'[h])
            /\ PayloadId(Stored(heap', handles'[h])) = PayloadId(Stored(heap, handles[h]))]_vars

\* a handle that held a payload was assigned the handle of foo_ex2
C7_Witness ==
  /\ last.op = "copy_assign"
  /\ last.h # last.src
  /\ last.old # nullptr
  /\ Stored(heap, handles[last.h]) = [fn |-> "foo_ex2"]

\* C8: a call of a handle that holds a member function pointer returns what
\* the member returns and leaves the caller's receiver as the member, called
\* on it directly, leaves it.
C8_MemberCallOnReceiver ==
  (last.op = "call" /\ last.ran \in {"Beren", "Mutate"})
    => /\ last.ret = Member_call(last.ran, last.arg.obj).ret
       /\ last.argOut.obj = Member_call(last.ran, last.arg.obj).self

\* C9: a call of a handle that holds a function or a functor returns what the
\* payload, called directly with the same arguments, returns, leaves a
\* reference argument as the direct call leaves it, and leaves the stored
\* functor as the direct call leaves the functor; foo_ex1 yields 42 and
\* foo_void takes 41 to 42.
C9_CallIsDirectCall ==
  [][(/\ last'.op = "call"
      /\ Owns(heap, handles[last'.h])
      /\ heap[handles[last'.h].impl_base_].kind \in {"fn", "functor"}) =>
       LET cb == Stored(heap, handles[last'.h])
           d == DirectCall(cb, last'.arg)
       IN /\ halted' = "no"
          /\ last'.ret = d.ret
          /\ last'.argOut = d.argOut
          /\ Stored(heap', handles'[last'.h]) = d.self
          /\ cb = [fn |-> "foo_ex1"] => last'.ret = [int |-> 42]
          /\ (cb = [fn |-> "foo_void"] /\ last'.arg = [int |-> 41])
               => last'.argOut = [int |-> 42]]_vars

\* foo_void was called through a handle with an int that was 41 and is 42
C9_Witness ==
  /\ last.op = "call"
  /\ last.ran = "foo_void"
  /\ last.arg = [int |-> 41]
  /\ last.argOut = [int |-> 42]
  /\ halted = "no"

\* F is one of the types of the list
Occurs(F, L) == \E i \in 1 .. Len(L) : L[i] = F

\* C10: with the list AvailableCommmands, on_modify_command takes the
\* true_type branch exactly when the type of the command occurs in the list,
\* and has_type's type is true_type exactly when its value is true.
C10_DispatchIffListed ==
  (list = AvailableCommmands /\ dispatch # NoDispatch)
    => /\ dispatch.branch = "true_type" <=> Occurs(dispatch.cmd, list)
       /\ has_type(dispatch.cmd, list).type = has_type(dispatch.cmd, list).value

====
